---- MODULE Spec2Model ----
(***************************************************************************)
(* The Sequence API client of carpay-collect (src/lib/api.ts): one call of *)
(* a client operation, from the fetch it issues to the promise it settles. *)
(* Response bodies are texts (sequences of lexemes); JSON.parse, String()  *)
(* and JSON.stringify are modelled by what they compute on them.           *)
(***************************************************************************)
EXTENDS Integers, Sequences, FiniteSets, TLC

VARIABLES pc, call, requests, response, payload, normalized, outcome

\* the value of VITE_API_BASE_URL the module was loaded with
VARIABLE env

\* the state of one call of the client
apiVars == <<pc, call, requests, response, payload, normalized, outcome>>

\* several calls of the client running at once (served: the response the network
\* delivered to the call), the number of fetches issued, the number of calls made
VARIABLES slots, issued, invoked

concVars == <<slots, issued, invoked>>

\* the timeline of the detail page: the events array TimelineList is given, the array
\* the client delivered, and the memo of TimelineList
VARIABLES events, received, grouped

timelineVars == <<events, received, grouped>>

\* the queue of the dashboard: all rows, the filter mode, the rows shown
VARIABLES rowsAll, mode, rows

queueVars == <<rowsAll, mode, rows>>

\* a call of cx: its arguments and the class name it returned
VARIABLES classes, className

cxVars == <<classes, className>>

\* the customer detail page: the state of useEnrollmentDetail (enrollment, events,
\* loading, error), the saving flag, the loads issued with the promises of their two
\* requests, the run of runAction, the load that finished last, whether a
\* rejection reached the runtime with no handler, and the number of suppress and
\* escalate requests in flight
VARIABLES detail, saving, loads, action, lastLoad, unhandled, mutations

detailVars == <<detail, saving, loads, action, lastLoad, unhandled, mutations>>

\* the list pages: the state of useEnrollments (the selected status, data, loading,
\* error) and the loads it issued, each with its status and the promise of its request
VARIABLES list, listLoads

listVars == <<list, listLoads>>

\* the enroll modal: its state (open, form, saving, error), the calls of onDone and
\* onClose made by onSubmit, in order, and the create request of the last submit
VARIABLES modal, callbacks, submit

modalVars == <<modal, callbacks, submit>>

\* what a step of a call leaves alone
nonApiVars == <<env, concVars, timelineVars, queueVars, cxVars, detailVars, listVars, modalVars>>

\* what a step of the concurrent calls leaves alone
nonConcVars == <<apiVars, env, timelineVars, queueVars, cxVars, detailVars, listVars, modalVars>>

\* what a step of the timeline leaves alone
nonTimelineVars == <<apiVars, env, concVars, queueVars, cxVars, detailVars, listVars, modalVars>>

\* what a step of the queue leaves alone
nonQueueVars == <<apiVars, env, concVars, timelineVars, cxVars, detailVars, listVars, modalVars>>

\* what a call of cx leaves alone
nonCxVars == <<apiVars, env, concVars, timelineVars, queueVars, detailVars, listVars, modalVars>>

\* what a step of the list pages leaves alone
nonListVars == <<apiVars, env, concVars, timelineVars, queueVars, cxVars, detailVars, modalVars>>

\* what a step of the enroll modal leaves alone
nonModalVars == <<apiVars, env, concVars, timelineVars, queueVars, cxVars, detailVars, listVars>>

\* what a step of the detail page leaves alone
nonDetailVars == <<apiVars, env, concVars, timelineVars, queueVars, cxVars, listVars, modalVars>>

vars == <<apiVars, nonApiVars>>

(***************************************************************************)
(* Bounds of the model.                                                    *)
(***************************************************************************)
\* longest array a server body of the model carries
MaxArrayLen == 2
\* most calls of the client running at once
MaxCalls == 2
\* most calls of the client made in one run of the concurrent model
MaxInvocations == 3
\* longest timeline the detail page holds
MaxEvents == 3
\* most rows the queue holds
MaxRows == 3
\* most arguments of a call of cx
MaxClasses == 3
\* most loads the detail page issues in one run
MaxLoads == 2
\* most loads a list page issues in one run
MaxListLoads == 3
\* most submits of the enroll modal in one run
MaxSubmits == 2

(***************************************************************************)
(* JSON values: what JSON.parse returns and the client passes around.      *)
(***************************************************************************)
Null == [t |-> "null"]

Bool(b) == [t |-> "bool", b |-> b]

Str(s) == [t |-> "str", s |-> s]

Num(n) == [t |-> "num", n |-> n]

Arr(s) == [t |-> "arr", a |-> s]

\* an object is the sequence of its fields [k, v], in insertion order
Obj(fields) == [t |-> "obj", o |-> fields]

Field(k, v) == [k |-> k, v |-> v]

\* "k" in x
HasField(x, k) == x.t = "obj" /\ \E i \in 1..Len(x.o) : x.o[i].k = k

\* x.k, for an object that has the field
GetField(x, k) == x.o[CHOOSE i \in 1..Len(x.o) : x.o[i].k = k].v

\* o[k] = v as JSON.parse does it: a repeated key keeps its place, the last value wins
PutField(fields, k, v) ==
    IF \E i \in 1..Len(fields) : fields[i].k = k
    THEN [i \in 1..Len(fields) |-> IF fields[i].k = k THEN Field(k, v) ELSE fields[i]]
    ELSE Append(fields, Field(k, v))

\* Array.isArray(x)
IsArray(x) == x.t = "arr"

\* the truthiness of a value: null, undefined, false, 0 and "" are falsy
Truthy(x) ==
    CASE x.t = "null" -> FALSE
      [] x.t = "undefined" -> FALSE
      [] x.t = "bool" -> x.b
      [] x.t = "num" -> x.n # 0
      [] x.t = "str" -> x.s # ""
      [] OTHER -> TRUE

\* typeof x === "object": objects, arrays and null
TypeofObject(x) == x.t \in {"obj", "arr", "null"}

\* Array.isArray(x.k) for a truthy x of type object: a missing field is undefined
FieldIsArray(x, k) == HasField(x, k) /\ IsArray(GetField(x, k))

(***************************************************************************)
(* Strings: decimal numerals, String(x), string literals.                  *)
(***************************************************************************)
Digit(d) ==
    CASE d = 0 -> "0" [] d = 1 -> "1" [] d = 2 -> "2" [] d = 3 -> "3" [] d = 4 -> "4"
      [] d = 5 -> "5" [] d = 6 -> "6" [] d = 7 -> "7" [] d = 8 -> "8" [] d = 9 -> "9"

RECURSIVE Decimal(_)
\* the decimal numeral of a natural number, as template literals and String() print it
Decimal(n) == IF n < 10 THEN Digit(n) ELSE Decimal(n \div 10) \o Digit(n % 10)

RECURSIVE JSString(_)
RECURSIVE JoinElements(_, _)
\* Array.prototype.join(","): null elements print as the empty string
JoinElements(s, i) ==
    IF i > Len(s) THEN ""
    ELSE (IF s[i].t = "null" THEN "" ELSE JSString(s[i]))
         \o (IF i < Len(s) THEN "," ELSE "")
         \o JoinElements(s, i + 1)

\* String(x)
JSString(x) ==
    CASE x.t = "null" -> "null"
      [] x.t = "bool" -> (IF x.b THEN "true" ELSE "false")
      [] x.t = "num" -> Decimal(x.n)
      [] x.t = "str" -> x.s
      [] x.t = "arr" -> JoinElements(x.a, 1)
      [] x.t = "obj" -> "[object Object]"

\* the JSON literal of a string without characters to escape
Quote(s) == "\"" \o s \o "\""

(***************************************************************************)
(* JSON texts.  A text is the sequence of its lexemes; the text itself is  *)
(* their concatenation.                                                    *)
(***************************************************************************)
RECURSIVE TextOf(_)
\* the string a sequence of lexemes spells
TextOf(toks) == IF toks = <<>> THEN "" ELSE Head(toks) \o TextOf(Tail(toks))

RECURSIVE Stringify(_)
RECURSIVE StringifyElements(_, _)
RECURSIVE StringifyMembers(_, _)
StringifyElements(s, i) ==
    IF i > Len(s) THEN <<>>
    ELSE Stringify(s[i]) \o (IF i < Len(s) THEN <<",">> ELSE <<>>) \o StringifyElements(s, i + 1)

StringifyMembers(s, i) ==
    IF i > Len(s) THEN <<>>
    ELSE <<Quote(s[i].k), ":">> \o Stringify(s[i].v)
         \o (IF i < Len(s) THEN <<",">> ELSE <<>>) \o StringifyMembers(s, i + 1)

\* JSON.stringify(x), lexeme by lexeme
Stringify(x) ==
    CASE x.t = "null" -> <<"null">>
      [] x.t = "bool" -> <<IF x.b THEN "true" ELSE "false">>
      [] x.t = "num" -> <<Decimal(x.n)>>
      [] x.t = "str" -> <<Quote(x.s)>>
      [] x.t = "arr" -> <<"[">> \o StringifyElements(x.a, 1) \o <<"]">>
      [] x.t = "obj" -> <<"{">> \o StringifyMembers(x.o, 1) \o <<"}">>

\* the strings and numbers that occur in the bodies of the model
StringPool ==
    {"enrollments", "data", "events", "message", "foo", "id", "status",
     "e1", "e2", "ACTIVE", "PAID_EXIT", "ESCALATED", "SUPPRESSED", "not found", "",
     "borrowerId", "dealerId", "phone", "email", "reason", "b1", "b2", "d1", "d2",
     "555-0100", "555-0199", "a@b.c", "opt_out", "manual_escalation"}

NumberPool == {0, 7, 42}

IsStringLexeme(tok) == \E s \in StringPool : Quote(s) = tok

Unquote(tok) == CHOOSE s \in StringPool : Quote(s) = tok

IsNumberLexeme(tok) == \E n \in NumberPool : Decimal(n) = tok

NumberOf(tok) == CHOOSE n \in NumberPool : Decimal(n) = tok

\* a parse that failed at lexeme i
Fail(i) == [ok |-> FALSE, val |-> Null, next |-> i]

Parsed(v, i) == [ok |-> TRUE, val |-> v, next |-> i]

RECURSIVE ParseValue(_, _)
RECURSIVE ParseElements(_, _, _)
RECURSIVE ParseMembers(_, _, _)
\* the elements of an array after "[" or ",": value, then "," or "]"
ParseElements(toks, i, acc) ==
    LET r == ParseValue(toks, i) IN
    IF ~r.ok \/ r.next > Len(toks) THEN Fail(i)
    ELSE IF toks[r.next] = "]" THEN Parsed(Arr(Append(acc, r.val)), r.next + 1)
    ELSE IF toks[r.next] = "," THEN ParseElements(toks, r.next + 1, Append(acc, r.val))
    ELSE Fail(r.next)

\* the members of an object after "{" or ",": string, ":", value, then "," or "}"
ParseMembers(toks, i, acc) ==
    IF i + 1 > Len(toks) \/ ~IsStringLexeme(toks[i]) \/ toks[i + 1] # ":" THEN Fail(i)
    ELSE LET r == ParseValue(toks, i + 2)
             fields == PutField(acc, Unquote(toks[i]), r.val)
         IN  IF ~r.ok \/ r.next > Len(toks) THEN Fail(i)
             ELSE IF toks[r.next] = "}" THEN Parsed(Obj(fields), r.next + 1)
             ELSE IF toks[r.next] = "," THEN ParseMembers(toks, r.next + 1, fields)
             ELSE Fail(r.next)

\* one JSON value starting at lexeme i
ParseValue(toks, i) ==
    IF i > Len(toks) THEN Fail(i)
    ELSE LET tok == toks[i] IN
         CASE tok = "null" -> Parsed(Null, i + 1)
           [] tok = "true" -> Parsed(Bool(TRUE), i + 1)
           [] tok = "false" -> Parsed(Bool(FALSE), i + 1)
           [] tok = "[" ->
                IF i + 1 <= Len(toks) /\ toks[i + 1] = "]" THEN Parsed(Arr(<<>>), i + 2)
                ELSE ParseElements(toks, i + 1, <<>>)
           [] tok = "{" ->
                IF i + 1 <= Len(toks) /\ toks[i + 1] = "}" THEN Parsed(Obj(<<>>), i + 2)
                ELSE ParseMembers(toks, i + 1, <<>>)
           [] OTHER ->
                IF IsStringLexeme(tok) THEN Parsed(Str(Unquote(tok)), i + 1)
                ELSE IF IsNumberLexeme(tok) THEN Parsed(Num(NumberOf(tok)), i + 1)
                ELSE Fail(i)

\* JSON.parse(text): the value, or a SyntaxError when the text is not one JSON value
JSONParse(toks) ==
    LET r == ParseValue(toks, 1) IN
    IF r.ok /\ r.next = Len(toks) + 1 THEN [threw |-> FALSE, val |-> r.val]
    ELSE [threw |-> TRUE, val |-> Null]

(***************************************************************************)
(* The server's side: the bodies and statuses a response can carry.        *)
(***************************************************************************)
EnrollmentStatus == {"ACTIVE", "PAID_EXIT", "ESCALATED", "SUPPRESSED"}

\* an Enrollment as the server sends it (the fields the model follows)
Enrollment(id, status) == Obj(<<Field("id", Str(id)), Field("status", Str(status))>>)

E1 == Enrollment("e1", "ACTIVE")

E2 == Enrollment("e2", "ESCALATED")

\* the elements of the arrays the server sends
Elements == {E1, E2}

Arrays == {Arr(s) : s \in UNION {[1..n -> Elements] : n \in 0..MaxArrayLen}}

Scalars == {Null, Str("not found"), Num(42)}

\* the scalars that are falsy without being null
FalsyScalars == {Num(0), Str(""), Bool(FALSE)}

\* the field names the client looks at, and one it does not
Keys == {"enrollments", "data", "events", "message", "foo"}

FieldValues == Arrays \cup Scalars \cup {E1}

OneFieldObjects == {Obj(<<Field(k, v)>>) : k \in Keys, v \in FieldValues}

PairValues == {Str("not found"), Arr(<<E1>>), Arr(<<E2>>)}

TwoFieldObjects ==
    {Obj(<<Field(ks[1], vs[1]), Field(ks[2], vs[2])>>) :
        ks \in {x \in Keys \X Keys : x[1] # x[2]}, vs \in PairValues \X PairValues}

EnrollmentBodies == {E1, E2, Enrollment("e1", "SUPPRESSED")}

\* the JSON values a body of the model encodes
Values ==
    Scalars \cup FalsyScalars \cup Arrays \cup {Obj(<<>>)} \cup OneFieldObjects \cup TwoFieldObjects
        \cup EnrollmentBodies

ValidTexts == {Stringify(v) : v \in Values}

\* a body cut short after its first lexemes: never a JSON text
TruncatedTexts ==
    {SubSeq(t, 1, Len(t) - 1) : t \in {Stringify(v) : v \in Arrays \cup OneFieldObjects}}

\* bodies that are no JSON at all
PlainTexts == {<<"Internal Server Error">>, <<"<html>", "oops", "</html>">>}

\* every body of the model; <<>> is the empty body
ServerTexts == {<<>>} \cup ValidTexts \cup TruncatedTexts \cup PlainTexts

\* the HTTP status codes of the model, on both sides of each end of 200..299
HttpStatuses == {200, 201, 299, 300, 404, 500}

(***************************************************************************)
(* The client: src/lib/api.ts.                                             *)
(***************************************************************************)
\* undefined: no value
Undefined == [t |-> "undefined"]

\* new ApiError(message, status, payload)
ApiError(message, status, data) ==
    [name |-> "ApiError", message |-> message, status |-> status, payload |-> data]

\* what fetch and Response.text() reject with; it has no status and no payload
TypeError(message) ==
    [name |-> "TypeError", message |-> message, status |-> -1, payload |-> Undefined]

NoError == [name |-> "", message |-> "", status |-> -1, payload |-> Undefined]

Pending == [kind |-> "pending", value |-> Undefined, error |-> NoError]

Resolved(v) == [kind |-> "resolved", value |-> v, error |-> NoError]

Rejected(e) == [kind |-> "rejected", value |-> Undefined, error |-> e]

NoResponse == [arrived |-> FALSE, status |-> 0, ok |-> FALSE, body |-> <<>>]

NoCall == [op |-> "", status |-> "", id |-> "", body |-> Undefined]

\* parseJson without its empty-text check: "" goes to JSON.parse, fails, and comes back as text
parseJsonNoEmptyCheck(text) ==
    LET r == JSONParse(text) IN IF r.threw THEN Str(TextOf(text)) ELSE r.val

\* parseJson(response), given the text response.text() resolved with
parseJson(text) ==
    IF text = <<>> THEN Null
    ELSE LET r == JSONParse(text) IN IF r.threw THEN Str(TextOf(text)) ELSE r.val

\* errorMessage taking the message only when it is a string (no coercion)
errorMessageStringsOnly(data, status) ==
    IF TypeofObject(data) /\ Truthy(data) /\ HasField(data, "message")
       /\ GetField(data, "message").t = "str"
    THEN GetField(data, "message").s
    ELSE "Request failed (" \o Decimal(status) \o ")"

\* the message of the error a non-2xx response is turned into
errorMessage(data, status) ==
    IF TypeofObject(data) /\ Truthy(data) /\ HasField(data, "message")
    THEN JSString(GetField(data, "message"))
    ELSE "Request failed (" \o Decimal(status) \o ")"

\* VITE_API_BASE_URL not set, and set to a text
EnvUnset == [set |-> FALSE, text |-> <<>>]

EnvSet(text) == [set |-> TRUE, text |-> text]

\* s.replace(/\/$/, ""): one slash at the end of the text is dropped
StripTrailingSlash(text) ==
    IF text # <<>> /\ text[Len(text)] = "/" THEN SubSeq(text, 1, Len(text) - 1) ELSE text

\* API_BASE_URL taken from the environment as it is
API_BASE_URL_Unstripped == IF env.set THEN TextOf(env.text) ELSE ""

\* const API_BASE_URL = import.meta.env.VITE_API_BASE_URL?.replace(/\/$/, "") ?? ""
API_BASE_URL == IF env.set THEN TextOf(StripTrailingSlash(env.text)) ELSE ""

\* the fetch request() makes for a RequestInit: the URL, the header, and the init
\* spread over them (a key of init wins)
request(init) ==
    init @@ [url |-> API_BASE_URL \o init.path, contentType |-> "application/json"]

\* the RequestInit apiGet passes to request
apiGet(path) == [path |-> path, method |-> "GET", hasBody |-> FALSE, body |-> <<>>]

\* apiPost without the null check: JSON.stringify(null) is "null", of undefined undefined
apiPostAlwaysStringify(path, body) ==
    [path |-> path, method |-> "POST",
     hasBody |-> body # Undefined,
     body |-> IF body = Undefined THEN <<>> ELSE Stringify(body)]

\* apiPost passing the body without JSON.stringify: fetch sends String(body)
apiPostCoerced(path, body) ==
    [path |-> path, method |-> "POST",
     hasBody |-> body \notin {Null, Undefined},
     body |-> IF body \in {Null, Undefined} THEN <<>> ELSE <<JSString(body)>>]

\* the RequestInit apiPost passes to request: no body when body == null
apiPost(path, body) ==
    [path |-> path, method |-> "POST",
     hasBody |-> body \notin {Null, Undefined},
     body |-> IF body \in {Null, Undefined} THEN <<>> ELSE Stringify(body)]

\* sequenceApi with the paths of suppress and escalate exchanged
RequestForSwapped(c) ==
    CASE c.op = "listEnrollments" -> apiGet("/api/enrollments?status=" \o c.status)
      [] c.op = "createEnrollment" -> apiPost("/api/enrollments", c.body)
      [] c.op = "getEnrollment" -> apiGet("/api/enrollments/" \o c.id)
      [] c.op = "getTimeline" -> apiGet("/api/enrollments/" \o c.id \o "/timeline")
      [] c.op = "suppressEnrollment" -> apiPost("/api/enrollments/" \o c.id \o "/escalate", c.body)
      [] c.op = "escalateEnrollment" -> apiPost("/api/enrollments/" \o c.id \o "/suppress", c.body)

\* the request each operation of sequenceApi issues
RequestFor(c) ==
    CASE c.op = "listEnrollments" -> apiGet("/api/enrollments?status=" \o c.status)
      [] c.op = "createEnrollment" -> apiPost("/api/enrollments", c.body)
      [] c.op = "getEnrollment" -> apiGet("/api/enrollments/" \o c.id)
      [] c.op = "getTimeline" -> apiGet("/api/enrollments/" \o c.id \o "/timeline")
      [] c.op = "suppressEnrollment" -> apiPost("/api/enrollments/" \o c.id \o "/suppress", c.body)
      [] c.op = "escalateEnrollment" -> apiPost("/api/enrollments/" \o c.id \o "/escalate", c.body)

\* the array in reverse order
Reverse(x) == Arr([i \in 1..Len(x.a) |-> x.a[Len(x.a) + 1 - i]])

\* normalizeEnrollmentList re-ordering the array it found
normalizeEnrollmentListReordered(data) ==
    IF IsArray(data) THEN Resolved(Reverse(data))
    ELSE IF Truthy(data) /\ TypeofObject(data) /\ FieldIsArray(data, "enrollments")
    THEN Resolved(Reverse(GetField(data, "enrollments")))
    ELSE IF Truthy(data) /\ TypeofObject(data) /\ FieldIsArray(data, "data")
    THEN Resolved(Reverse(GetField(data, "data")))
    ELSE Rejected(ApiError("Expected enrollments array from API", 200, data))

\* normalizeEnrollmentList looking at data before enrollments
normalizeEnrollmentListDataFirst(data) ==
    IF IsArray(data) THEN Resolved(data)
    ELSE IF Truthy(data) /\ TypeofObject(data) /\ FieldIsArray(data, "data")
    THEN Resolved(GetField(data, "data"))
    ELSE IF Truthy(data) /\ TypeofObject(data) /\ FieldIsArray(data, "enrollments")
    THEN Resolved(GetField(data, "enrollments"))
    ELSE Rejected(ApiError("Expected enrollments array from API", 200, data))

\* normalizeEnrollmentList falling back to an empty list on an unknown shape
normalizeEnrollmentListLenient(data) ==
    IF IsArray(data) THEN Resolved(data)
    ELSE IF Truthy(data) /\ TypeofObject(data) /\ FieldIsArray(data, "enrollments")
    THEN Resolved(GetField(data, "enrollments"))
    ELSE IF Truthy(data) /\ TypeofObject(data) /\ FieldIsArray(data, "data")
    THEN Resolved(GetField(data, "data"))
    ELSE Resolved(Arr(<<>>))

\* normalizeEnrollmentList(payload): the promise listEnrollments settles with
normalizeEnrollmentList(data) ==
    IF IsArray(data) THEN Resolved(data)
    ELSE IF Truthy(data) /\ TypeofObject(data) /\ FieldIsArray(data, "enrollments")
    THEN Resolved(GetField(data, "enrollments"))
    ELSE IF Truthy(data) /\ TypeofObject(data) /\ FieldIsArray(data, "data")
    THEN Resolved(GetField(data, "data"))
    ELSE Rejected(ApiError("Expected enrollments array from API", 200, data))

\* normalizeTimeline testing events.length instead of Array.isArray(events)
normalizeTimelineNonEmpty(data) ==
    IF Truthy(data) /\ TypeofObject(data) /\ FieldIsArray(data, "events")
       /\ Len(GetField(data, "events").a) > 0
    THEN Resolved(Obj(<<Field("events", GetField(data, "events"))>>))
    ELSE Rejected(ApiError("Expected timeline response with events[]", 200, data))

\* normalizeTimeline taking a bare array too, as the list normalizer does
normalizeTimelineBareArray(data) ==
    IF IsArray(data) THEN Resolved(Obj(<<Field("events", data)>>))
    ELSE IF Truthy(data) /\ TypeofObject(data) /\ FieldIsArray(data, "events")
    THEN Resolved(Obj(<<Field("events", GetField(data, "events"))>>))
    ELSE Rejected(ApiError("Expected timeline response with events[]", 200, data))

\* normalizeTimeline(payload): the promise getTimeline settles with
normalizeTimeline(data) ==
    IF Truthy(data) /\ TypeofObject(data) /\ FieldIsArray(data, "events")
    THEN Resolved(Obj(<<Field("events", GetField(data, "events"))>>))
    ELSE Rejected(ApiError("Expected timeline response with events[]", 200, data))

\* the operations that pass the payload through a normalizer
NormalizedOps == {"listEnrollments", "getTimeline"}

\* the operations that return request's promise as it is
PlainOps == {"createEnrollment", "getEnrollment", "suppressEnrollment", "escalateEnrollment"}

Ops == NormalizedOps \cup PlainOps

\* the calls the view layer makes
Calls ==
    {[op |-> "listEnrollments", status |-> s, id |-> "", body |-> Undefined] :
        s \in {"ACTIVE", "ESCALATED"}}
    \cup {[op |-> o, status |-> "", id |-> "e1", body |-> Undefined] :
        o \in {"getEnrollment", "getTimeline"}}
    \cup {[op |-> o, status |-> "", id |-> "e1",
           body |-> Obj(<<Field("reason", Str("manual_escalation"))>>)] :
        o \in {"suppressEnrollment", "escalateEnrollment"}}
    \cup {[op |-> "createEnrollment", status |-> "", id |-> "",
           body |-> Obj(<<Field("borrowerId", Str("b1")), Field("dealerId", Str("d1")),
                          Field("phone", Str("555"))>>)]}

(***************************************************************************)
(* The parts of the state at rest.                                         *)
(***************************************************************************)
\* a call that is not running
IdleCall ==
    [pc |-> "idle", call |-> NoCall, requests |-> <<>>, response |-> NoResponse,
     served |-> NoResponse, payload |-> Undefined, normalized |-> FALSE, outcome |-> Pending]

\* no concurrent call was made
ConcInit ==
    /\ slots = [i \in 1..MaxCalls |-> IdleCall]
    /\ issued = 0
    /\ invoked = 0

\* TimelineList before its first render
NotRendered == [rendered |-> FALSE, value |-> <<>>]

\* TimelineList not mounted
TimelineInit ==
    /\ events = <<>>
    /\ received = <<>>
    /\ grouped = NotRendered

\* the dashboard not mounted
QueueInit ==
    /\ rowsAll = <<>>
    /\ mode = "all"
    /\ rows = <<>>

\* cx not called
CxInit ==
    /\ classes = <<>>
    /\ className = Undefined

\* the run of runAction when no action is running
NoAction == [pc |-> "idle", kind |-> "", outcome |-> Pending]

\* no load has finished
NoLoad == [n |-> 0, enroll |-> Pending, timeline |-> Pending]

\* the useState initial values of useEnrollmentDetail and CustomerDetailPage
DetailStateInit ==
    /\ detail = [enrollment |-> Null, events |-> <<>>, loading |-> TRUE, error |-> Null]
    /\ saving = FALSE
    /\ action = NoAction
    /\ lastLoad = NoLoad
    /\ unhandled = FALSE
    /\ mutations = 0

\* the detail page not mounted: no load issued
DetailInit ==
    /\ DetailStateInit
    /\ loads = <<>>

\* the useState initial values of useEnrollments
ListStateInit ==
    list = [status |-> "ACTIVE", data |-> Arr(<<>>), loading |-> TRUE, error |-> Null]

\* the list pages not mounted: no load issued
ListInit ==
    /\ ListStateInit
    /\ listLoads = <<>>

\* the form with empty fields
EmptyForm == [borrowerId |-> "", dealerId |-> "", phone |-> "", email |-> ""]

\* no submit in progress
NoSubmit == [pc |-> "idle", payload |-> EmptyForm, outcome |-> Pending, n |-> 0]

\* the enroll modal closed, with the useState initial values
ModalInit ==
    /\ modal = [open |-> FALSE, form |-> EmptyForm, saving |-> FALSE, error |-> Null]
    /\ callbacks = <<>>
    /\ submit = NoSubmit

\* the list pages and the modal not mounted
ListPagesInit ==
    /\ ListInit
    /\ ModalInit

\* the pages not mounted
PagesInit ==
    /\ QueueInit
    /\ CxInit
    /\ DetailInit
    /\ ListPagesInit

(***************************************************************************)
(* One call, step by step.                                                 *)
(***************************************************************************)
\* no call of the client is running
ApiInit ==
    /\ pc = "idle"
    /\ call = NoCall
    /\ requests = <<>>
    /\ response = NoResponse
    /\ payload = Undefined
    /\ normalized = FALSE
    /\ outcome = Pending

Init ==
    /\ ApiInit
    /\ env = EnvUnset
    /\ ConcInit
    /\ TimelineInit
    /\ PagesInit

\* an operation of sequenceApi is called: request() calls fetch
Invoke(c) ==
    /\ pc = "idle"
    /\ pc' = "fetch"
    /\ call' = c
    /\ requests' = <<request(RequestFor(c))>>
    /\ UNCHANGED <<response, payload, normalized, outcome>>
    /\ UNCHANGED nonApiVars

\* fetch resolves with a response; Response.ok is status in 200..299
FetchResolve(status, body) ==
    /\ pc = "fetch"
    /\ response' = [arrived |-> TRUE, status |-> status, ok |-> status \in 200..299, body |-> body]
    /\ pc' = "text"
    /\ UNCHANGED <<call, requests, payload, normalized, outcome>>
    /\ UNCHANGED nonApiVars

\* fetch rejects (no network, CORS, aborted): await rethrows, nothing catches
FetchReject ==
    /\ pc = "fetch"
    /\ outcome' = Rejected(TypeError("Failed to fetch"))
    /\ pc' = "settled"
    /\ UNCHANGED <<call, requests, response, payload, normalized>>
    /\ UNCHANGED nonApiVars

\* response.text() resolves and parseJson returns
ReadBody ==
    /\ pc = "text"
    /\ payload' = parseJson(response.body)
    /\ pc' = "parsed"
    /\ UNCHANGED <<call, requests, response, normalized, outcome>>
    /\ UNCHANGED nonApiVars

\* response.text() rejects (the connection broke mid-body): nothing catches
ReadBodyReject ==
    /\ pc = "text"
    /\ outcome' = Rejected(TypeError("Failed to read body"))
    /\ pc' = "settled"
    /\ UNCHANGED <<call, requests, response, payload, normalized>>
    /\ UNCHANGED nonApiVars

\* request throwing only when the error body carries a message
RequestThrowOnMessage ==
    /\ pc = "parsed"
    /\ ~response.ok
    /\ IF HasField(payload, "message")
       THEN /\ pc' = "settled"
            /\ outcome' = Rejected(ApiError(errorMessage(payload, response.status),
                                            response.status, payload))
       ELSE IF call.op \in {"listEnrollments", "getTimeline"}
       THEN pc' = "normalize" /\ outcome' = outcome
       ELSE pc' = "settled" /\ outcome' = Resolved(payload)
    /\ UNCHANGED <<call, requests, response, payload, normalized>>
    /\ UNCHANGED nonApiVars

\* request issuing the fetch again after a 5xx response
RequestThrowRetry ==
    /\ pc = "parsed"
    /\ ~response.ok
    /\ IF response.status >= 500
       THEN /\ requests' = Append(requests, requests[1])
            /\ pc' = "fetch"
            /\ outcome' = outcome
       ELSE /\ requests' = requests
            /\ pc' = "settled"
            /\ outcome' = Rejected(ApiError(errorMessage(payload, response.status),
                                            response.status, payload))
    /\ UNCHANGED <<call, response, payload, normalized>>
    /\ UNCHANGED nonApiVars

\* request: !response.ok, throw new ApiError(message, response.status, payload)
RequestThrow ==
    /\ pc = "parsed"
    /\ ~response.ok
    /\ outcome' = Rejected(ApiError(errorMessage(payload, response.status), response.status, payload))
    /\ pc' = "settled"
    /\ UNCHANGED <<call, requests, response, payload, normalized>>
    /\ UNCHANGED nonApiVars

\* suppress and escalate writing the status they asked for into the result
RequestReturnRecomputeStatus ==
    /\ pc = "parsed"
    /\ response.ok
    /\ IF call.op \in {"listEnrollments", "getTimeline"}
       THEN pc' = "normalize" /\ outcome' = outcome
       ELSE /\ pc' = "settled"
            /\ outcome' =
                 IF call.op \in {"suppressEnrollment", "escalateEnrollment"} /\ payload.t = "obj"
                 THEN Resolved(Obj(PutField(payload.o, "status",
                          Str(IF call.op = "suppressEnrollment" THEN "SUPPRESSED" ELSE "ESCALATED"))))
                 ELSE Resolved(payload)
    /\ UNCHANGED <<call, requests, response, payload, normalized>>
    /\ UNCHANGED nonApiVars

\* request: return payload as T; the plain operations settle with it
RequestReturn ==
    /\ pc = "parsed"
    /\ response.ok
    /\ IF call.op \in NormalizedOps
       THEN pc' = "normalize" /\ outcome' = outcome
       ELSE pc' = "settled" /\ outcome' = Resolved(payload)
    /\ UNCHANGED <<call, requests, response, payload, normalized>>
    /\ UNCHANGED nonApiVars

\* listEnrollments: return normalizeEnrollmentList(payload)
NormalizeList ==
    /\ pc = "normalize"
    /\ call.op = "listEnrollments"
    /\ normalized' = TRUE
    /\ outcome' = normalizeEnrollmentList(payload)
    /\ pc' = "settled"
    /\ UNCHANGED <<call, requests, response, payload>>
    /\ UNCHANGED nonApiVars

\* getTimeline: return normalizeTimeline(payload)
NormalizeTimelineStep ==
    /\ pc = "normalize"
    /\ call.op = "getTimeline"
    /\ normalized' = TRUE
    /\ outcome' = normalizeTimeline(payload)
    /\ pc' = "settled"
    /\ UNCHANGED <<call, requests, response, payload>>
    /\ UNCHANGED nonApiVars

\* the caller takes the settled promise; the call leaves nothing behind
Consume ==
    /\ pc = "settled"
    /\ pc' = "idle"
    /\ call' = NoCall
    /\ requests' = <<>>
    /\ response' = NoResponse
    /\ payload' = Undefined
    /\ normalized' = FALSE
    /\ outcome' = Pending
    /\ UNCHANGED nonApiVars

Next ==
    \/ \E c \in Calls : Invoke(c)
    \/ \E status \in HttpStatuses, body \in ServerTexts : FetchResolve(status, body)
    \/ FetchReject
    \/ ReadBody
    \/ ReadBodyReject
    \/ RequestThrow
    \/ RequestReturn
    \/ NormalizeList
    \/ NormalizeTimelineStep
    \/ Consume

Spec == Init /\ [][Next]_vars

(***************************************************************************)
(* The requests on the wire: every operation with several arguments, under *)
(* several settings of VITE_API_BASE_URL, against a server that echoes.    *)
(***************************************************************************)
\* the settings of VITE_API_BASE_URL of the model; "/" at the end is a lexeme of its own
Envs ==
    {EnvUnset, EnvSet(<<>>), EnvSet(<<"/">>),
     EnvSet(<<"https://api.example.com">>), EnvSet(<<"https://api.example.com", "/">>),
     EnvSet(<<"https://api.example.com", "/", "/">>),
     EnvSet(<<"https://api.example.com/v1">>), EnvSet(<<"https://api.example.com/v1", "/">>)}

\* a CreateEnrollmentPayload: borrowerId, dealerId, phone, and email when given
CreatePayload(b, d, ph, em) ==
    Obj(<<Field("borrowerId", Str(b)), Field("dealerId", Str(d)), Field("phone", Str(ph))>>
        \o (IF em = "" THEN <<>> ELSE <<Field("email", Str(em))>>))

CreatePayloads == {CreatePayload("b1", "d1", "555-0100", ""), CreatePayload("b2", "d2", "555-0199", "a@b.c")}

\* a ReasonPayload
ReasonPayload(r) == Obj(<<Field("reason", Str(r))>>)

ReasonPayloads == {ReasonPayload("opt_out"), ReasonPayload("manual_escalation")}

\* the calls of the wire model: every status, two ids, and bodies that are null or undefined
WireCalls ==
    {[op |-> "listEnrollments", status |-> st, id |-> "", body |-> Undefined] :
        st \in EnrollmentStatus}
    \cup {[op |-> o, status |-> "", id |-> i, body |-> Undefined] :
        o \in {"getEnrollment", "getTimeline"}, i \in {"e1", "e2"}}
    \cup {[op |-> o, status |-> "", id |-> i, body |-> b] :
        o \in {"suppressEnrollment", "escalateEnrollment"}, i \in {"e1", "e2"},
        b \in ReasonPayloads \cup {Null, Undefined}}
    \cup {[op |-> "createEnrollment", status |-> "", id |-> "", body |-> b] :
        b \in CreatePayloads \cup {Null}}

\* the server's answer to a request: the object it was sent, with an id and a status
Echo(req) ==
    LET sent == IF req.hasBody THEN JSONParse(req.body) ELSE [threw |-> TRUE, val |-> Null]
        fields == IF ~sent.threw /\ sent.val.t = "obj" THEN sent.val.o ELSE <<>>
    IN  Stringify(Obj(<<Field("id", Str("e1")), Field("status", Str("ACTIVE"))>> \o fields))

\* the bodies the echoing server answers the request in flight with
WireTexts == IF requests = <<>> THEN {} ELSE {<<>>, Echo(requests[1])}

InitWire ==
    /\ ApiInit
    /\ env \in Envs
    /\ ConcInit
    /\ TimelineInit
    /\ PagesInit

NextWire ==
    \/ \E c \in WireCalls : Invoke(c)
    \/ \E status \in {200, 500}, body \in WireTexts : FetchResolve(status, body)
    \/ FetchReject
    \/ ReadBody
    \/ ReadBodyReject
    \/ RequestThrow
    \/ RequestReturn
    \/ NormalizeList
    \/ NormalizeTimelineStep
    \/ Consume

SpecWire == InitWire /\ [][NextWire]_vars

(***************************************************************************)
(* Several calls at once: each call is a run of request() of its own, with *)
(* its own locals; the steps of different calls interleave at the awaits.  *)
(***************************************************************************)
ConcCalls ==
    {[op |-> "listEnrollments", status |-> "ACTIVE", id |-> "", body |-> Undefined],
     [op |-> "getTimeline", status |-> "", id |-> "e1", body |-> Undefined],
     [op |-> "getEnrollment", status |-> "", id |-> "e1", body |-> Undefined]}

ConcTexts == {Stringify(Arr(<<E1>>)), Stringify(Obj(<<Field("events", Arr(<<E2>>))>>))}

ConcStatuses == {200, 500}

\* the slots other than i keep their state
SlotStep(i, new) == slots' = [slots EXCEPT ![i] = new]

\* call c starts in the free slot i and runs up to its await of fetch
InvokeAt(i, c) ==
    /\ invoked < MaxInvocations
    /\ slots[i].pc = "idle"
    /\ SlotStep(i, [slots[i] EXCEPT !.pc = "fetch", !.call = c,
                                    !.requests = <<request(RequestFor(c))>>])
    /\ issued' = issued + 1
    /\ invoked' = invoked + 1
    /\ UNCHANGED nonConcVars

\* the response kept in a variable of the module instead of a local of request()
FetchResolveAtShared(i, status, body) ==
    LET resp == [arrived |-> TRUE, status |-> status, ok |-> status \in 200..299, body |-> body] IN
    /\ slots[i].pc = "fetch"
    /\ slots' = [j \in 1..MaxCalls |->
                    IF j = i THEN [slots[j] EXCEPT !.pc = "text", !.response = resp, !.served = resp]
                    ELSE IF slots[j].pc = "text" THEN [slots[j] EXCEPT !.response = resp]
                    ELSE slots[j]]
    /\ UNCHANGED <<nonConcVars, issued, invoked>>

\* the fetch of slot i resolves; the call runs up to its await of response.text()
FetchResolveAt(i, status, body) ==
    LET resp == [arrived |-> TRUE, status |-> status, ok |-> status \in 200..299, body |-> body] IN
    /\ slots[i].pc = "fetch"
    /\ SlotStep(i, [slots[i] EXCEPT !.pc = "text", !.response = resp, !.served = resp])
    /\ UNCHANGED <<nonConcVars, issued, invoked>>

FetchRejectAt(i) ==
    /\ slots[i].pc = "fetch"
    /\ SlotStep(i, [slots[i] EXCEPT !.pc = "settled",
                                    !.outcome = Rejected(TypeError("Failed to fetch"))])
    /\ UNCHANGED <<nonConcVars, issued, invoked>>

\* the text of slot i arrives; request() runs to its end without another await:
\* parseJson, then the throw of ApiError or the return of the data
ReadBodyAt(i) ==
    LET resp == slots[i].response
        data == parseJson(resp.body)
    IN  /\ slots[i].pc = "text"
        /\ IF ~resp.ok
           THEN SlotStep(i, [slots[i] EXCEPT !.pc = "settled", !.payload = data,
                    !.outcome = Rejected(ApiError(errorMessage(data, resp.status), resp.status, data))])
           ELSE IF slots[i].call.op \in NormalizedOps
           THEN SlotStep(i, [slots[i] EXCEPT !.pc = "normalize", !.payload = data])
           ELSE SlotStep(i, [slots[i] EXCEPT !.pc = "settled", !.payload = data,
                                             !.outcome = Resolved(data)])
        /\ UNCHANGED <<nonConcVars, issued, invoked>>

\* the caller of request() resumes and normalizes the data
NormalizeAt(i) ==
    /\ slots[i].pc = "normalize"
    /\ SlotStep(i, [slots[i] EXCEPT !.pc = "settled", !.normalized = TRUE,
            !.outcome = IF slots[i].call.op = "listEnrollments"
                        THEN normalizeEnrollmentList(slots[i].payload)
                        ELSE normalizeTimeline(slots[i].payload)])
    /\ UNCHANGED <<nonConcVars, issued, invoked>>

\* the caller takes the settled promise: the slot is free for the next call
ConsumeAt(i) ==
    /\ slots[i].pc = "settled"
    /\ SlotStep(i, IdleCall)
    /\ UNCHANGED <<nonConcVars, issued, invoked>>

NextConcurrent ==
    \E i \in 1..MaxCalls :
        \/ \E c \in ConcCalls : InvokeAt(i, c)
        \/ \E status \in ConcStatuses, body \in ConcTexts : FetchResolveAt(i, status, body)
        \/ FetchRejectAt(i)
        \/ ReadBodyAt(i)
        \/ NormalizeAt(i)
        \/ ConsumeAt(i)

SpecConcurrent == Init /\ [][NextConcurrent]_vars

(***************************************************************************)
(* The timeline of the detail page.                                        *)
(***************************************************************************)
TouchSent(sentAt, day) == [type |-> "TOUCH_SENT", sentAt |-> sentAt, day |-> day]
CallCompleted(endedAt, day) == [type |-> "CALL_COMPLETED", endedAt |-> endedAt, day |-> day]
PaymentPosted(postedAt) == [type |-> "PAYMENT_POSTED", postedAt |-> postedAt]
Escalated(at) == [type |-> "ESCALATED", at |-> at]
Suppressed(at) == [type |-> "SUPPRESSED", at |-> at]

\* the events a server sends; the client does not validate their timestamps
EventPool ==
    {TouchSent("2024-03-02T10:00:00Z", 2), CallCompleted("2024-03-01T10:00:00Z", 1),
     TouchSent("2024-03-03T10:00:00Z", 1), PaymentPosted("2024-03-03T10:00:00Z"),
     Suppressed("soon")}

RECURSIVE SeqsUpTo(_, _)
SeqsUpTo(S, n) ==
    IF n = 0 THEN {<<>>}
    ELSE LET shorter == SeqsUpTo(S, n - 1) IN
         shorter \cup {Append(q, x) : q \in {r \in shorter : Len(r) = n - 1}, x \in S}

Timelines == SeqsUpTo(EventPool, MaxEvents)

eventTimestamp(event) ==
    IF event.type = "TOUCH_SENT" THEN event.sentAt
    ELSE IF event.type = "CALL_COMPLETED" THEN event.endedAt
    ELSE IF event.type = "PAYMENT_POSTED" THEN event.postedAt
    ELSE event.at

eventDay(event) ==
    IF event.type = "TOUCH_SENT" \/ event.type = "CALL_COMPLETED" THEN Num(event.day)
    ELSE Null

\* new Date(text) is a valid date for the ISO texts, an invalid one otherwise
IsValidDate(text) ==
    text \in {"2024-03-01T10:00:00Z", "2024-03-02T10:00:00Z", "2024-03-03T10:00:00Z"}

\* +new Date(text) of a valid date, in days since 2024-03-01T10:00:00Z
DateValue(text) ==
    IF text = "2024-03-01T10:00:00Z" THEN 0
    ELSE IF text = "2024-03-02T10:00:00Z" THEN 1
    ELSE 2

\* the comparator of the sort; a NaN result counts as +0
compareEvents(a, b) ==
    IF IsValidDate(eventTimestamp(a)) /\ IsValidDate(eventTimestamp(b))
    THEN DateValue(eventTimestamp(b)) - DateValue(eventTimestamp(a))
    ELSE 0

\* e put behind every element that does not sort after it
RECURSIVE InsertSorted(_, _)
InsertSorted(e, sorted) ==
    IF sorted = <<>> THEN <<e>>
    ELSE IF compareEvents(Head(sorted), e) > 0 THEN <<e>> \o sorted
    ELSE <<Head(sorted)>> \o InsertSorted(e, Tail(sorted))

\* Array.prototype.sort with a consistent comparator: stable
RECURSIVE StableSort(_)
StableSort(evs) ==
    IF evs = <<>> THEN <<>>
    ELSE InsertSorted(evs[Len(evs)], StableSort(SubSeq(evs, 1, Len(evs) - 1)))

Permuted(evs) ==
    {[i \in 1..Len(evs) |-> evs[p[i]]] :
        p \in {q \in [1..Len(evs) -> 1..Len(evs)] : \A i, j \in 1..Len(evs) : i # j => q[i] # q[j]}}

\* the orders sort() can leave: the stable order when the comparator is consistent,
\* an order of the implementation's choice when an invalid date makes it inconsistent
SortOutcomes(evs) ==
    IF \A i \in 1..Len(evs) : IsValidDate(eventTimestamp(evs[i]))
    THEN {StableSort(evs)}
    ELSE Permuted(evs)

dayLabel(event) ==
    IF eventDay(event) = Null THEN "System Events"
    ELSE "Day " \o Decimal(eventDay(event).n)

\* the body of forEach: arr = map.get(key) ?? []; arr.push(event); map.set(key, arr)
PushInto(map, event) ==
    IF \E i \in 1..Len(map) : map[i].key = dayLabel(event)
    THEN [i \in 1..Len(map) |->
            IF map[i].key = dayLabel(event)
            THEN [key |-> map[i].key, events |-> Append(map[i].events, event)]
            ELSE map[i]]
    ELSE Append(map, [key |-> dayLabel(event), events |-> <<event>>])

\* the Map after sorted.forEach, its entries in insertion order
RECURSIVE GroupByDay(_)
GroupByDay(sorted) ==
    IF sorted = <<>> THEN <<>>
    ELSE PushInto(GroupByDay(SubSeq(sorted, 1, Len(sorted) - 1)), sorted[Len(sorted)])

\* TimelineList is mounted with an events array the client delivered
InitTimeline ==
    /\ ApiInit
    /\ env = EnvUnset
    /\ ConcInit
    /\ events \in Timelines
    /\ received = events
    /\ grouped = NotRendered
    /\ PagesInit

\* the sort applied to the events array itself
RenderTimelineListInPlace ==
    /\ ~grouped.rendered
    /\ \E sorted \in SortOutcomes(events) :
          /\ events' = sorted
          /\ grouped' = [rendered |-> TRUE, value |-> GroupByDay(sorted)]
    /\ UNCHANGED <<received, nonTimelineVars>>

\* TimelineList renders: useMemo computes grouped from a sorted copy of events
RenderTimelineList ==
    /\ ~grouped.rendered
    /\ \E sorted \in SortOutcomes(events) :
          grouped' = [rendered |-> TRUE, value |-> GroupByDay(sorted)]
    /\ UNCHANGED <<events, received, nonTimelineVars>>

NextTimeline == RenderTimelineList

SpecTimeline == InitTimeline /\ [][NextTimeline]_vars

(***************************************************************************)
(* The queue of the dashboard.                                             *)
(***************************************************************************)
QueueRow(id, status) == [id |-> id, status |-> status]

RowPool ==
    {QueueRow("c1", "Escalation"), QueueRow("c2", "Escalation"),
     QueueRow("c3", "Promise to pay"), QueueRow("c5", "Managed")}

RowLists == SeqsUpTo(RowPool, MaxRows)

\* rows.filter((r) => r.status === status): a new array
RECURSIVE filterByStatus(_, _)
filterByStatus(rs, status) ==
    IF rs = <<>> THEN <<>>
    ELSE (IF Head(rs).status = status THEN <<Head(rs)>> ELSE <<>>)
         \o filterByStatus(Tail(rs), status)

\* rows.slice(): a new array of the same elements
slice(rs) == [i \in 1..Len(rs) |-> rs[i]]

\* the two filters taken for each other
applyQueueModeSwapped(rs, m) ==
    IF m = "escalations" THEN filterByStatus(rs, "Promise to pay")
    ELSE IF m = "promises" THEN filterByStatus(rs, "Escalation")
    ELSE slice(rs)

applyQueueMode(rs, m) ==
    IF m = "escalations" THEN filterByStatus(rs, "Escalation")
    ELSE IF m = "promises" THEN filterByStatus(rs, "Promise to pay")
    ELSE slice(rs)

\* the dashboard is mounted with its rows and renders them unfiltered
InitQueue ==
    /\ ApiInit
    /\ env = EnvUnset
    /\ ConcInit
    /\ TimelineInit
    /\ CxInit
    /\ DetailInit
    /\ ListPagesInit
    /\ rowsAll \in RowLists
    /\ mode = "all"
    /\ rows = applyQueueMode(rowsAll, "all")

\* setMode(next) and the render it causes: useMemo recomputes rows
SetMode(next) ==
    /\ mode' = next
    /\ rows' = applyQueueMode(rowsAll, next)
    /\ UNCHANGED <<rowsAll, nonQueueVars>>

\* the Escalations card is clicked
ToggleEscalations == SetMode(IF mode = "escalations" THEN "all" ELSE "escalations")

\* the Promises card is clicked
TogglePromises == SetMode(IF mode = "promises" THEN "all" ELSE "promises")

\* the card of all rows is clicked, or the filter is cleared
ShowAll == SetMode("all")

NextQueue ==
    \/ ToggleEscalations
    \/ TogglePromises
    \/ ShowAll

SpecQueue == InitQueue /\ [][NextQueue]_vars

(***************************************************************************)
(* cx and cn: the class names of the components.                           *)
(***************************************************************************)
\* the arguments the type of cx allows: string | null | undefined | false
ClassPool == {Str("a"), Str("b"), Str(""), Null, Undefined, Bool(FALSE)}

ClassLists == SeqsUpTo(ClassPool, MaxClasses)

\* classes.filter(Boolean)
RECURSIVE filterBoolean(_)
filterBoolean(cs) ==
    IF cs = <<>> THEN <<>>
    ELSE (IF Truthy(Head(cs)) THEN <<Head(cs)>> ELSE <<>>) \o filterBoolean(Tail(cs))

\* Array.prototype.join(sep): null and undefined elements print as the empty string
RECURSIVE join(_, _)
join(cs, sep) ==
    IF cs = <<>> THEN ""
    ELSE (IF Head(cs).t \in {"null", "undefined"} THEN "" ELSE JSString(Head(cs)))
         \o (IF Len(cs) > 1 THEN sep ELSE "")
         \o join(Tail(cs), sep)

\* join without the filter
cxUnfiltered(cs) == join(cs, " ")

cx(cs) == join(filterBoolean(cs), " ")

\* a component is about to call cx with some arguments
InitCx ==
    /\ ApiInit
    /\ env = EnvUnset
    /\ ConcInit
    /\ TimelineInit
    /\ QueueInit
    /\ DetailInit
    /\ ListPagesInit
    /\ classes \in ClassLists
    /\ className = Undefined

\* className={cx(...)}
CallCx ==
    /\ className = Undefined
    /\ className' = Str(cx(classes))
    /\ UNCHANGED <<classes, nonCxVars>>

NextCx == CallCx

SpecCx == InitCx /\ [][NextCx]_vars

(***************************************************************************)
(* The customer detail page: useEnrollmentDetail and runAction.            *)
(***************************************************************************)
\* what getEnrollment settles with
EnrollOutcomes ==
    {Resolved(Enrollment("e1", "ACTIVE")), Resolved(Enrollment("e1", "SUPPRESSED")),
     Rejected(ApiError("not found", 404, Obj(<<Field("message", Str("not found"))>>)))}

\* what getTimeline settles with
TimelineOutcomes ==
    {Resolved(Obj(<<Field("events", Arr(<<>>))>>)),
     Resolved(Obj(<<Field("events", Arr(<<Obj(<<Field("type", Str("SUPPRESSED"))>>)>>))>>)),
     Rejected(ApiError("Request failed (500)", 500, Null))}

\* what suppressEnrollment and escalateEnrollment settle with
MutationOutcomes ==
    {Resolved(Enrollment("e1", "SUPPRESSED")),
     Rejected(ApiError("conflict", 409, Obj(<<Field("message", Str("conflict"))>>))),
     Rejected(TypeError("Failed to fetch"))}

\* err instanceof Error ? err.message : fallback
errorText(err, fallback) ==
    IF err.name \in {"ApiError", "TypeError", "SyntaxError"} THEN err.message ELSE fallback

\* load() up to its await: the two requests are issued, Promise.all is pending
StartedLoad(awaited) ==
    [enroll |-> Pending, timeline |-> Pending, decided |-> FALSE, awaited |-> awaited]

\* the detail page is mounted: the effect has called load()
InitDetail ==
    /\ ApiInit
    /\ env = EnvUnset
    /\ ConcInit
    /\ TimelineInit
    /\ QueueInit
    /\ CxInit
    /\ ListPagesInit
    /\ DetailStateInit
    /\ loads = <<StartedLoad(FALSE)>>

\* the Refresh button is clicked: load()
Refresh ==
    /\ Len(loads) < MaxLoads
    /\ detail' = [detail EXCEPT !.loading = TRUE]
    /\ loads' = Append(loads, StartedLoad(FALSE))
    /\ UNCHANGED <<saving, action, lastLoad, unhandled, mutations, nonDetailVars>>

\* a request of load i has settled and the load is now l: the rest of load() runs
\* when Promise.all settles, which is at the first rejection or when both resolved;
\* runAction, if it awaits this load, then runs its finally
AfterSettle(i, l) ==
    LET rejects == ~loads[i].decided /\ (l.enroll.kind = "rejected" \/ l.timeline.kind = "rejected")
        fulfils == ~loads[i].decided /\ l.enroll.kind = "resolved" /\ l.timeline.kind = "resolved"
        reason == IF l.enroll.kind = "rejected" THEN l.enroll.error ELSE l.timeline.error
    IN  /\ loads' = [loads EXCEPT ![i] = [l EXCEPT !.decided = loads[i].decided \/ rejects \/ fulfils]]
        /\ IF fulfils
           THEN detail' = [enrollment |-> l.enroll.value,
                           events |-> GetField(l.timeline.value, "events").a,
                           loading |-> FALSE, error |-> Null]
           ELSE IF rejects
           THEN detail' = [detail EXCEPT
                              !.error = Str(errorText(reason, "Failed to load enrollment details")),
                              !.loading = FALSE]
           ELSE UNCHANGED detail
        /\ IF fulfils \/ rejects
           THEN lastLoad' = [n |-> lastLoad.n + 1, enroll |-> l.enroll, timeline |-> l.timeline]
           ELSE UNCHANGED lastLoad
        /\ IF (fulfils \/ rejects) /\ l.awaited
           THEN saving' = FALSE /\ action' = [action EXCEPT !.pc = "idle"]
           ELSE UNCHANGED <<saving, action>>
        /\ UNCHANGED <<unhandled, mutations, nonDetailVars>>

\* sequential awaits: the enrollment is set as soon as getEnrollment resolves
SettleEnrollmentEager(i, o) ==
    /\ i \in 1..Len(loads)
    /\ loads[i].enroll.kind = "pending"
    /\ loads' = [loads EXCEPT ![i].enroll = o]
    /\ IF o.kind = "resolved"
       THEN detail' = [detail EXCEPT !.enrollment = o.value]
       ELSE UNCHANGED detail
    /\ UNCHANGED <<saving, action, lastLoad, unhandled, mutations, nonDetailVars>>

\* getEnrollment of load i settles
SettleEnrollment(i, o) ==
    /\ i \in 1..Len(loads)
    /\ loads[i].enroll.kind = "pending"
    /\ AfterSettle(i, [loads[i] EXCEPT !.enroll = o])

\* getTimeline of load i settles
SettleTimeline(i, o) ==
    /\ i \in 1..Len(loads)
    /\ loads[i].timeline.kind = "pending"
    /\ AfterSettle(i, [loads[i] EXCEPT !.timeline = o])

\* the buttons not disabled while saving
ClickActionEnabled(kind) ==
    /\ Truthy(detail.enrollment)
    /\ Len(loads) < MaxLoads
    /\ saving' = TRUE
    /\ action' = [pc |-> "mutating", kind |-> kind, outcome |-> Pending]
    /\ mutations' = mutations + 1
    /\ UNCHANGED <<detail, loads, lastLoad, unhandled, nonDetailVars>>

\* a button of the page is clicked (they are rendered when enrollment is set and
\* disabled while saving): runAction up to its first await
ClickAction(kind) ==
    /\ Truthy(detail.enrollment)
    /\ ~saving
    /\ Len(loads) < MaxLoads
    /\ saving' = TRUE
    /\ action' = [pc |-> "mutating", kind |-> kind, outcome |-> Pending]
    /\ mutations' = mutations + 1
    /\ UNCHANGED <<detail, loads, lastLoad, unhandled, nonDetailVars>>

\* saving reset as soon as the request settles, before the refresh
SettleActionResetEarly(o) ==
    /\ action.pc = "mutating"
    /\ mutations' = mutations - 1
    /\ saving' = FALSE
    /\ IF o.kind = "resolved"
       THEN /\ action' = [action EXCEPT !.pc = "refreshing", !.outcome = o]
            /\ detail' = [detail EXCEPT !.loading = TRUE]
            /\ loads' = Append(loads, StartedLoad(TRUE))
            /\ UNCHANGED unhandled
       ELSE /\ action' = [action EXCEPT !.pc = "idle", !.outcome = o]
            /\ unhandled' = TRUE
            /\ UNCHANGED <<detail, loads>>
    /\ UNCHANGED <<lastLoad, nonDetailVars>>

\* the request of runAction settles: on success refresh() is called and awaited;
\* on failure finally resets saving and the rejection leaves runAction, whose
\* promise the click handler drops with void
SettleAction(o) ==
    /\ action.pc = "mutating"
    /\ mutations' = mutations - 1
    /\ IF o.kind = "resolved"
       THEN /\ action' = [action EXCEPT !.pc = "refreshing", !.outcome = o]
            /\ detail' = [detail EXCEPT !.loading = TRUE]
            /\ loads' = Append(loads, StartedLoad(TRUE))
            /\ UNCHANGED <<saving, unhandled>>
       ELSE /\ action' = [action EXCEPT !.pc = "idle", !.outcome = o]
            /\ saving' = FALSE
            /\ unhandled' = TRUE
            /\ UNCHANGED <<detail, loads>>
    /\ UNCHANGED <<lastLoad, nonDetailVars>>

NextDetail ==
    \/ Refresh
    \/ \E i \in 1..MaxLoads, o \in EnrollOutcomes : SettleEnrollment(i, o)
    \/ \E i \in 1..MaxLoads, o \in TimelineOutcomes : SettleTimeline(i, o)
    \/ \E kind \in {"suppress", "escalate"} : ClickAction(kind)
    \/ \E o \in MutationOutcomes : SettleAction(o)

SpecDetail == InitDetail /\ [][NextDetail]_vars

(***************************************************************************)
(* The list pages: useEnrollments.                                         *)
(***************************************************************************)
\* the statuses the model selects
ListStatuses == {"ACTIVE", "ESCALATED"}

\* what listEnrollments(status) settles with
ListOutcomes(status) ==
    {Resolved(Arr(<<Enrollment("e1", status)>>)), Resolved(Arr(<<>>)),
     Rejected(ApiError("Request failed (500)", 500, Null))}

\* load() up to its await: the request for the status of this render is issued
StartedListLoad(status) == [status |-> status, outcome |-> Pending]

\* a list page not mounted, everything else at rest
ListRest ==
    /\ ApiInit
    /\ env = EnvUnset
    /\ ConcInit
    /\ TimelineInit
    /\ QueueInit
    /\ CxInit
    /\ DetailInit
    /\ ModalInit

\* a list page is mounted: the effect has called load()
InitList ==
    /\ ListRest
    /\ ListStateInit
    /\ listLoads = <<StartedListLoad("ACTIVE")>>

\* a status is clicked: setMode / setStatus; for a new status load is a new callback
\* and the effect calls it
SetStatus(status) ==
    /\ status # list.status
    /\ Len(listLoads) < MaxListLoads
    /\ list' = [list EXCEPT !.status = status, !.loading = TRUE]
    /\ listLoads' = Append(listLoads, StartedListLoad(status))
    /\ UNCHANGED nonListVars

\* the Refresh button is clicked: load()
RefreshList ==
    /\ Len(listLoads) < MaxListLoads
    /\ list' = [list EXCEPT !.loading = TRUE]
    /\ listLoads' = Append(listLoads, StartedListLoad(list.status))
    /\ UNCHANGED nonListVars

\* load() without its finally on the catch path
SettleListNoFinally(i, o) ==
    /\ i \in 1..Len(listLoads)
    /\ listLoads[i].outcome.kind = "pending"
    /\ o \in ListOutcomes(listLoads[i].status)
    /\ listLoads' = [listLoads EXCEPT ![i].outcome = o]
    /\ IF o.kind = "resolved"
       THEN list' = [list EXCEPT !.data = o.value, !.error = Null, !.loading = FALSE]
       ELSE list' = [list EXCEPT !.error = Str(errorText(o.error, "Failed to load enrollments"))]
    /\ UNCHANGED nonListVars

\* the request of load i settles and the rest of that load() runs
SettleList(i, o) ==
    /\ i \in 1..Len(listLoads)
    /\ listLoads[i].outcome.kind = "pending"
    /\ o \in ListOutcomes(listLoads[i].status)
    /\ listLoads' = [listLoads EXCEPT ![i].outcome = o]
    /\ IF o.kind = "resolved"
       THEN list' = [list EXCEPT !.data = o.value, !.error = Null, !.loading = FALSE]
       ELSE list' = [list EXCEPT !.error = Str(errorText(o.error, "Failed to load enrollments")),
                                 !.loading = FALSE]
    /\ UNCHANGED nonListVars

\* the outcomes of all list requests
AllListOutcomes == UNION {ListOutcomes(st) : st \in ListStatuses}

NextList ==
    \/ \E status \in ListStatuses : SetStatus(status)
    \/ RefreshList
    \/ \E i \in 1..MaxListLoads, o \in AllListOutcomes : SettleList(i, o)

SpecList == InitList /\ [][NextList]_vars

\* the list pages when every request settles in the end
SpecListFair ==
    /\ InitList
    /\ [][NextList]_vars
    /\ \A i \in 1..MaxListLoads : WF_vars(\E o \in AllListOutcomes : SettleList(i, o))

(***************************************************************************)
(* The enroll modal of the customers page.                                 *)
(***************************************************************************)
Form(b, d, ph, em) == [borrowerId |-> b, dealerId |-> d, phone |-> ph, email |-> em]

\* what the user types: complete forms, one without the optional email, and one
\* without the required phone
Forms ==
    {EmptyForm, Form("b1", "d1", "555-0100", "a@b.c"), Form("b2", "d1", "555-0199", ""),
     Form("b1", "d1", "", "")}

\* the required inputs are filled: the browser lets the form submit
RequiredFilled(f) == f.borrowerId # "" /\ f.dealerId # "" /\ f.phone # ""

\* what createEnrollment settles with
SubmitOutcomes ==
    {Resolved(Enrollment("e9", "ACTIVE")),
     Rejected(ApiError("duplicate", 409, Obj(<<Field("message", Str("duplicate"))>>))),
     Rejected(TypeError("Failed to fetch"))}

\* the customers page is mounted with the modal closed
InitModal ==
    /\ ApiInit
    /\ env = EnvUnset
    /\ ConcInit
    /\ TimelineInit
    /\ QueueInit
    /\ CxInit
    /\ DetailInit
    /\ ListInit
    /\ ModalInit

\* the Enroll button of the page is clicked: setShowEnroll(true)
OpenModal ==
    /\ ~modal.open
    /\ modal' = [modal EXCEPT !.open = TRUE]
    /\ UNCHANGED <<callbacks, submit, nonModalVars>>

\* the Cancel button is clicked: onClose, which is setShowEnroll(false)
CancelModal ==
    /\ modal.open
    /\ modal' = [modal EXCEPT !.open = FALSE]
    /\ UNCHANGED <<callbacks, submit, nonModalVars>>

\* the user types into the inputs: setForm
EditForm(f) ==
    /\ modal.open
    /\ f # modal.form
    /\ modal' = [modal EXCEPT !.form = f]
    /\ UNCHANGED <<callbacks, submit, nonModalVars>>

\* the form is submitted (the submit button is disabled while saving, the required
\* inputs are filled): onSubmit up to its await
SubmitForm ==
    /\ modal.open
    /\ ~modal.saving
    /\ RequiredFilled(modal.form)
    /\ submit.n < MaxSubmits
    /\ modal' = [modal EXCEPT !.saving = TRUE]
    /\ submit' = [pc |-> "pending", payload |-> modal.form, outcome |-> Pending, n |-> submit.n + 1]
    /\ UNCHANGED <<callbacks, nonModalVars>>

\* the form reset in finally, on failure too
SettleSubmitResetAlways(o) ==
    /\ submit.pc = "pending"
    /\ submit' = [submit EXCEPT !.pc = "idle", !.outcome = o]
    /\ IF o.kind = "resolved"
       THEN /\ callbacks' = callbacks \o <<"onDone", "onClose">>
            /\ modal' = [open |-> FALSE, form |-> EmptyForm, saving |-> FALSE, error |-> Null]
       ELSE /\ callbacks' = callbacks
            /\ modal' = [modal EXCEPT !.error = Str(errorText(o.error, "Unable to enroll borrower")),
                                      !.form = EmptyForm, !.saving = FALSE]
    /\ UNCHANGED nonModalVars

\* createEnrollment settles and the rest of onSubmit runs: on success setError(null),
\* onDone(), onClose() (which closes the modal), setForm(empty); on failure setError;
\* finally setSaving(false)
SettleSubmit(o) ==
    /\ submit.pc = "pending"
    /\ submit' = [submit EXCEPT !.pc = "idle", !.outcome = o]
    /\ IF o.kind = "resolved"
       THEN /\ callbacks' = callbacks \o <<"onDone", "onClose">>
            /\ modal' = [open |-> FALSE, form |-> EmptyForm, saving |-> FALSE, error |-> Null]
       ELSE /\ callbacks' = callbacks
            /\ modal' = [modal EXCEPT !.error = Str(errorText(o.error, "Unable to enroll borrower")),
                                      !.saving = FALSE]
    /\ UNCHANGED nonModalVars

NextModal ==
    \/ OpenModal
    \/ CancelModal
    \/ \E f \in Forms : EditForm(f)
    \/ SubmitForm
    \/ \E o \in SubmitOutcomes : SettleSubmit(o)

SpecModal == InitModal /\ [][NextModal]_vars

(***************************************************************************)
(* What the claims speak about.                                            *)
(***************************************************************************)
\* the JSON value each valid body of the model encodes
ValueOfText == [t \in ValidTexts |-> CHOOSE v \in Values : Stringify(v) = t]

\* the parsed body a text stands for: absent, its JSON value, or the raw text
BodyValue(text) ==
    IF text = <<>> THEN Null
    ELSE IF text \in ValidTexts THEN ValueOfText[text]
    ELSE Str(TextOf(text))

\* a response arrived and its body was read and parsed
BodyRead == response.arrived /\ payload # Undefined

\* the call of operation op has settled after a response whose body was read
SettledAfterBody == pc = "settled" /\ BodyRead

\* x is an object with an array-valued field k
HasArrayField(x, k) == x.t = "obj" /\ HasField(x, k) /\ GetField(x, k).t = "arr"

\* a body listEnrollments accepts
ListShape(x) == x.t = "arr" \/ HasArrayField(x, "enrollments") \/ HasArrayField(x, "data")

ListSettled2xx == SettledAfterBody /\ response.ok /\ call.op = "listEnrollments"

TimelineSettled2xx == SettledAfterBody /\ response.ok /\ call.op = "getTimeline"

\* C1 as stated: on a 2xx response listEnrollments resolves with exactly A when the
\* body is the bare array A, an object whose enrollments field is A, or an object
\* whose data field is A.
C1_ListReturnsArrayOfAnyEnvelope ==
    ListSettled2xx =>
        LET b == BodyValue(response.body) IN
        /\ b.t = "arr" => outcome = Resolved(b)
        /\ HasArrayField(b, "enrollments") => outcome = Resolved(GetField(b, "enrollments"))
        /\ HasArrayField(b, "data") => outcome = Resolved(GetField(b, "data"))

\* C1 amended: on a 2xx response listEnrollments resolves with exactly A (same
\* elements, same order) when the body is the bare array A, an object whose
\* enrollments field is A, or an object whose data field is A and whose enrollments
\* field is not an array.
C1_ListReturnsArray ==
    ListSettled2xx =>
        LET b == BodyValue(response.body) IN
        /\ b.t = "arr" => outcome = Resolved(b)
        /\ HasArrayField(b, "enrollments") => outcome = Resolved(GetField(b, "enrollments"))
        /\ HasArrayField(b, "data") /\ ~HasArrayField(b, "enrollments")
              => outcome = Resolved(GetField(b, "data"))

\* a list call resolved, in the server's order, from a data envelope
C1_Witness ==
    /\ ListSettled2xx
    /\ response.body = Stringify(Obj(<<Field("data", Arr(<<E2, E1>>))>>))
    /\ outcome = Resolved(Arr(<<E2, E1>>))

\* C2: on a 2xx response whose parsed body is neither an array nor an object with an
\* array-valued enrollments or data field, listEnrollments rejects with an ApiError of
\* status 200, message "Expected enrollments array from API" and the parsed body as
\* payload.
C2_ListRejectsOtherShapes ==
    ListSettled2xx =>
        LET b == BodyValue(response.body) IN
        ~ListShape(b) =>
            /\ outcome.kind = "rejected"
            /\ outcome.error.name = "ApiError"
            /\ outcome.error.status = 200
            /\ outcome.error.message = "Expected enrollments array from API"
            /\ outcome.error.payload = b

\* a list call rejected for {foo: [...]} sent with status 201
C2_Witness ==
    /\ ListSettled2xx
    /\ response.status = 201
    /\ response.body = Stringify(Obj(<<Field("foo", Arr(<<E1>>))>>))
    /\ outcome.kind = "rejected"
    /\ outcome.error.status = 200

\* C3: on a 2xx response whose parsed body is an object with an array-valued events
\* field, getTimeline resolves with a result whose events is that array; {events: []}
\* gives the empty sequence.
C3_TimelineResolvesWithEvents ==
    TimelineSettled2xx =>
        LET b == BodyValue(response.body) IN
        HasArrayField(b, "events") =>
            /\ outcome.kind = "resolved"
            /\ HasField(outcome.value, "events")
            /\ GetField(outcome.value, "events") = GetField(b, "events")

\* a timeline call resolved with no events from {events: []}
C3_Witness ==
    /\ TimelineSettled2xx
    /\ response.body = <<"{", "\"events\"", ":", "[", "]", "}">>
    /\ outcome = Resolved(Obj(<<Field("events", Arr(<<>>))>>))

\* C4: on a 2xx response whose parsed body is anything but an object with an
\* array-valued events field, getTimeline rejects with an ApiError of status 200,
\* message "Expected timeline response with events[]" and the parsed body as payload.
C4_TimelineRejectsOtherShapes ==
    TimelineSettled2xx =>
        LET b == BodyValue(response.body) IN
        ~HasArrayField(b, "events") =>
            /\ outcome.kind = "rejected"
            /\ outcome.error.name = "ApiError"
            /\ outcome.error.status = 200
            /\ outcome.error.message = "Expected timeline response with events[]"
            /\ outcome.error.payload = b

\* a timeline call rejected for the bare array []
C4_Witness ==
    /\ TimelineSettled2xx
    /\ response.body = <<"[", "]">>
    /\ outcome.kind = "rejected"
    /\ outcome.error.payload = Arr(<<>>)

\* C5: for each operation and every body, a non-2xx response makes the operation
\* reject with an ApiError whose status is the HTTP status and whose payload is the
\* parsed body; no normalizer is reached.
C5_Non2xxAlwaysRejects ==
    SettledAfterBody /\ response.status \notin 200..299 =>
        /\ outcome.kind = "rejected"
        /\ outcome.error.name = "ApiError"
        /\ outcome.error.status = response.status
        /\ outcome.error.payload = BodyValue(response.body)
        /\ ~normalized

\* a list call rejected with 404 although the body is a valid list envelope
C5_Witness ==
    /\ SettledAfterBody
    /\ call.op = "listEnrollments"
    /\ response.status = 404
    /\ response.body = Stringify(Arr(<<E1>>))
    /\ outcome.kind = "rejected"
    /\ outcome.error.status = 404

\* C6: on a non-2xx response the ApiError message is String(body.message) when the
\* parsed body is an object containing a message field, and "Request failed (<status>)"
\* otherwise.
C6_ErrorMessage ==
    SettledAfterBody /\ ~response.ok =>
        LET b == BodyValue(response.body)
            m == outcome.error.message
        IN  /\ m = IF b.t = "obj" /\ HasField(b, "message")
                   THEN JSString(GetField(b, "message"))
                   ELSE "Request failed (" \o Decimal(response.status) \o ")"
            /\ response.body = <<"{", "\"message\"", ":", "\"not found\"", "}">> => m = "not found"
            /\ response.body = <<"{", "\"message\"", ":", "42", "}">> => m = "42"
            /\ response.body = <<"{", "\"message\"", ":", "null", "}">> => m = "null"
            /\ response.body = <<"{", "\"message\"", ":", "[", "]", "}">> => m = ""
            /\ response.body = <<>> /\ response.status = 500 => m = "Request failed (500)"
            /\ response.body = <<"[", "]">> /\ response.status = 404 => m = "Request failed (404)"

\* a call rejected with the coerced message of {message: 42}
C6_Witness ==
    /\ SettledAfterBody
    /\ response.status = 404
    /\ response.body = <<"{", "\"message\"", ":", "42", "}">>
    /\ outcome.error.message = "42"

\* C7: every call ends resolved, or rejected with an ApiError; no other rejection is
\* possible, also when the transport fails or the body cannot be read.
C7_OnlyApiErrorRejections ==
    pc = "settled" =>
        \/ outcome.kind = "resolved"
        \/ outcome.kind = "rejected" /\ outcome.error.name = "ApiError"

\* C8: body parsing never throws: an empty text parses to null, a JSON text to its
\* value, any other text to the text itself as a string.
C8_ParseJsonTotal ==
    BodyRead =>
        /\ payload = BodyValue(response.body)
        /\ pc = "parsed" => outcome = Pending
        /\ response.body = <<>> => payload = Null
        /\ response.body = <<"Internal Server Error">> => payload = Str("Internal Server Error")
        /\ response.body = <<"{", "\"events\"", ":", "[">> => payload = Str("{\"events\":[")

\* a truncated body was parsed into its raw text
C8_Witness ==
    /\ pc = "parsed"
    /\ response.body \in TruncatedTexts
    /\ payload = Str(TextOf(response.body))
    /\ outcome = Pending

\* C9: each call issues exactly one HTTP request, whatever its outcome.
C9_OneRequestPerCall == pc # "idle" => Len(requests) = 1

\* a call settled with a 500 after a single request
C9_Witness ==
    /\ SettledAfterBody
    /\ response.status = 500
    /\ outcome.kind = "rejected"
    /\ Len(requests) = 1

\* C10: on a 2xx response getEnrollment, createEnrollment, suppressEnrollment and
\* escalateEnrollment resolve with the parsed body unchanged, its status field
\* included; no normalizer or shape check runs.
C10_PlainOpsReturnBody ==
    SettledAfterBody /\ response.ok /\ call.op \in PlainOps =>
        LET b == BodyValue(response.body) IN
        /\ outcome = Resolved(b)
        /\ ~normalized
        /\ HasField(b, "status") => GetField(outcome.value, "status") = GetField(b, "status")

\* a suppress call resolved with an enrollment the server still reports ACTIVE
C10_Witness ==
    /\ SettledAfterBody
    /\ call.op = "suppressEnrollment"
    /\ response.body = Stringify(E1)
    /\ outcome.kind = "resolved"
    /\ GetField(outcome.value, "status") = Str("ACTIVE")

\* the one request of the running call
TheRequest == requests[1]

\* C12: each operation uses the method and path of the interface table.
C12_MethodAndPath ==
    pc # "idle" =>
        /\ call.op = "listEnrollments" =>
              /\ TheRequest.method = "GET"
              /\ TheRequest.path = "/api/enrollments?status=" \o call.status
              /\ call.status = "PAID_EXIT" => TheRequest.path = "/api/enrollments?status=PAID_EXIT"
        /\ call.op = "createEnrollment" =>
              TheRequest.method = "POST" /\ TheRequest.path = "/api/enrollments"
        /\ call.op = "getEnrollment" =>
              /\ TheRequest.method = "GET"
              /\ TheRequest.path = "/api/enrollments/" \o call.id
              /\ call.id = "e2" => TheRequest.path = "/api/enrollments/e2"
        /\ call.op = "getTimeline" =>
              /\ TheRequest.method = "GET"
              /\ TheRequest.path = "/api/enrollments/" \o call.id \o "/timeline"
              /\ call.id = "e2" => TheRequest.path = "/api/enrollments/e2/timeline"
        /\ call.op = "suppressEnrollment" =>
              /\ TheRequest.method = "POST"
              /\ TheRequest.path = "/api/enrollments/" \o call.id \o "/suppress"
              /\ call.id = "e1" => TheRequest.path = "/api/enrollments/e1/suppress"
        /\ call.op = "escalateEnrollment" =>
              /\ TheRequest.method = "POST"
              /\ TheRequest.path = "/api/enrollments/" \o call.id \o "/escalate"
              /\ call.id = "e1" => TheRequest.path = "/api/enrollments/e1/escalate"

\* a suppress call for e2 is on the wire as POST /api/enrollments/e2/suppress
C12_Witness ==
    /\ pc = "fetch"
    /\ call.op = "suppressEnrollment"
    /\ TheRequest.method = "POST"
    /\ TheRequest.path = "/api/enrollments/e2/suppress"

\* C13: every request carries Content-Type: application/json; a POST with a non-null
\* body sends the JSON encoding of that body; a GET, and a POST whose body is null or
\* undefined, sends no body.
C13_HeaderAndBody ==
    pc # "idle" =>
        /\ TheRequest.contentType = "application/json"
        /\ TheRequest.method = "POST" /\ call.body \notin {Null, Undefined} =>
              /\ TheRequest.hasBody
              /\ TheRequest.body = Stringify(call.body)
              /\ JSONParse(TheRequest.body) = [threw |-> FALSE, val |-> call.body]
        /\ TheRequest.method = "GET" \/ call.body \in {Null, Undefined} => ~TheRequest.hasBody
        /\ call.body = ReasonPayload("opt_out") =>
              TheRequest.body = <<"{", "\"reason\"", ":", "\"opt_out\"", "}">>

\* a create call with a null payload is on the wire without a body
C13_Witness ==
    /\ pc = "fetch"
    /\ call.op = "createEnrollment"
    /\ call.body = Null
    /\ TheRequest.method = "POST"
    /\ ~TheRequest.hasBody

\* C14: createEnrollment sends the JSON encoding of its payload, and when the 2xx
\* response echoes borrowerId, dealerId and phone, the resolved Enrollment carries the
\* payload's three values.
C14_CreateRoundTrip ==
    /\ pc # "idle" /\ call.op = "createEnrollment" /\ call.body # Null =>
          TheRequest.hasBody /\ TheRequest.body = Stringify(call.body)
    /\ /\ SettledAfterBody
       /\ response.ok
       /\ call.op = "createEnrollment"
       /\ call.body # Null
       /\ response.body = Echo(TheRequest)
       => /\ outcome.kind = "resolved"
          /\ \A k \in {"borrowerId", "dealerId", "phone"} :
                HasField(outcome.value, k) /\ GetField(outcome.value, k) = GetField(call.body, k)

\* a create call resolved with the borrower it sent
C14_Witness ==
    /\ SettledAfterBody
    /\ call.op = "createEnrollment"
    /\ call.body = CreatePayload("b2", "d2", "555-0199", "a@b.c")
    /\ response.body = Echo(TheRequest)
    /\ outcome.kind = "resolved"
    /\ GetField(outcome.value, "borrowerId") = Str("b2")
    /\ GetField(outcome.value, "phone") = Str("555-0199")

\* C15: the URL of every request is the configured base URL with its trailing slash
\* stripped, followed by the operation path; with no base URL configured it is the
\* path alone.
C15_RequestUrl ==
    pc # "idle" =>
        /\ ~env.set => TheRequest.url = TheRequest.path
        /\ env.set /\ env.text # <<>> /\ env.text[Len(env.text)] = "/" =>
              TheRequest.url = TextOf(SubSeq(env.text, 1, Len(env.text) - 1)) \o TheRequest.path
        /\ env.set /\ (env.text = <<>> \/ env.text[Len(env.text)] # "/") =>
              TheRequest.url = TextOf(env.text) \o TheRequest.path
        /\ env = EnvSet(<<"https://api.example.com", "/">>) /\ call.op = "getEnrollment" /\ call.id = "e1"
              => TheRequest.url = "https://api.example.com/api/enrollments/e1"
        /\ env = EnvSet(<<"/">>) /\ call.op = "createEnrollment" => TheRequest.url = "/api/enrollments"

\* a request went out under a base URL configured with a trailing slash
C15_Witness ==
    /\ pc = "fetch"
    /\ env = EnvSet(<<"https://api.example.com/v1", "/">>)
    /\ call.op = "getTimeline"
    /\ TheRequest.url = "https://api.example.com/v1/api/enrollments/e1/timeline"

\* what a call settles with when it runs alone: a function of its arguments and response
IsolatedOutcome(c, resp) ==
    LET data == parseJson(resp.body) IN
    IF ~resp.ok THEN Rejected(ApiError(errorMessage(data, resp.status), resp.status, data))
    ELSE IF c.op = "listEnrollments" THEN normalizeEnrollmentList(data)
    ELSE IF c.op = "getTimeline" THEN normalizeTimeline(data)
    ELSE Resolved(data)

\* C11: the client holds no shared state: under any interleaving of concurrent calls
\* each call's outcome is determined by its own arguments and the response to its own
\* request, and every call, repeated or not, issues a request of its own.
C11_NoSharedState ==
    /\ issued = invoked
    /\ \A i \in 1..MaxCalls :
          /\ slots[i].pc # "idle" =>
                slots[i].requests = <<request(RequestFor(slots[i].call))>>
          /\ slots[i].pc = "settled" /\ slots[i].served.arrived =>
                slots[i].outcome = IsolatedOutcome(slots[i].call, slots[i].served)

\* two calls with the same arguments ran at once, each with a request of its own,
\* got different responses and settled differently
C11_Witness ==
    /\ slots[1].pc = "settled" /\ slots[2].pc = "settled"
    /\ slots[1].call = slots[2].call
    /\ slots[1].served.arrived /\ slots[2].served.arrived
    /\ slots[1].served # slots[2].served
    /\ slots[1].outcome.kind = "resolved" /\ slots[2].outcome.kind = "rejected"
    /\ issued = 2

\* how often e occurs in the sequence evs
Occurrences(e, evs) == Cardinality({i \in 1..Len(evs) : evs[i] = e})

RECURSIVE OccurrencesInGroups(_, _)
OccurrencesInGroups(e, map) ==
    IF map = <<>> THEN 0
    ELSE Occurrences(e, Head(map).events) + OccurrencesInGroups(e, Tail(map))

\* C17: TimelineList sorts a copy: the events array held in state is the received
\* array, unchanged in content and order, and once TimelineList has rendered every
\* received event appears exactly once across the rendered groups.
C17_EventsKept ==
    /\ events = received
    /\ grouped.rendered =>
          \A e \in EventPool : OccurrencesInGroups(e, grouped.value) = Occurrences(e, received)

\* a timeline of three events, out of order, was rendered in two groups or more,
\* one of them with two events
C17_Witness ==
    /\ Len(received) = 3
    /\ grouped.rendered
    /\ Len(grouped.value) >= 2
    /\ \E i \in 1..Len(grouped.value) : Len(grouped.value[i].events) = 2
    /\ grouped.value[1].events[1] # received[1]

\* the indices of the rows of rs that have the status
IndicesOf(rs, status) == {i \in 1..Len(rs) : rs[i].status = status}

\* out lists exactly the elements of rs at the indices in keep, in the order of rs
IsSelection(out, rs, keep) ==
    /\ Len(out) = Cardinality(keep)
    /\ \E at \in [1..Len(out) -> keep] :
          /\ \A i, j \in 1..Len(out) : i < j => at[i] < at[j]
          /\ \A i \in 1..Len(out) : out[i] = rs[at[i]]

\* C18: applyQueueMode returns, in the original order, exactly the rows of status
\* "Escalation" for "escalations", of status "Promise to pay" for "promises", and all
\* rows for "all"; the input array is never modified.
C18_QueueMode ==
    [][/\ rowsAll' = rowsAll
       /\ mode' = "escalations" => IsSelection(rows', rowsAll, IndicesOf(rowsAll, "Escalation"))
       /\ mode' = "promises" => IsSelection(rows', rowsAll, IndicesOf(rowsAll, "Promise to pay"))
       /\ mode' = "all" => rows' = rowsAll]_vars

\* a filter is on over three rows of which it keeps some and drops some
C18_Witness ==
    /\ Len(rowsAll) = 3
    /\ mode = "escalations"
    /\ Len(rows) = 2
    /\ rows[1].id # rows[2].id

\* the values cx drops
Dropped == {Null, Undefined, Bool(FALSE), Str("")}

\* the indices of the arguments cx keeps
KeptIndices(cs) == {i \in 1..Len(cs) : cs[i] \notin Dropped}

\* the strings of out with one space between neighbours
RECURSIVE SpaceJoined(_)
SpaceJoined(out) ==
    IF out = <<>> THEN ""
    ELSE IF Len(out) = 1 THEN out[1].s
    ELSE out[1].s \o " " \o SpaceJoined(Tail(out))

\* C19: cx returns its truthy arguments, in argument order, joined by single spaces,
\* dropping every null, undefined, false and empty-string argument; cx("a", null, "b")
\* is "a b".
C19_CxJoinsTruthy ==
    /\ cx(<<Str("a"), Null, Str("b")>>) = "a b"
    /\ className # Undefined =>
          \E out \in ClassLists :
              /\ IsSelection(out, classes, KeptIndices(classes))
              /\ className = Str(SpaceJoined(out))

\* cx was called with a dropped argument between two kept ones
C19_Witness ==
    /\ Len(classes) = 3
    /\ classes[1] = Str("b") /\ classes[2] \in Dropped /\ classes[3] = Str("a")
    /\ className = Str("b a")

\* the message of the rejection that settled Promise.all of the last load
LastLoadMessage ==
    IF lastLoad.enroll.kind = "rejected" /\ lastLoad.timeline.kind = "rejected"
    THEN {lastLoad.enroll.error.message, lastLoad.timeline.error.message}
    ELSE IF lastLoad.enroll.kind = "rejected" THEN {lastLoad.enroll.error.message}
    ELSE {lastLoad.timeline.error.message}

\* C16 as claimed: whenever an operation called by the view rejects, the view records
\* the error's message in its error state and no rejection escapes unhandled. Not an
\* invariant of the code: a rejected suppress or escalate leaves runAction uncaught.
C16_RejectionsSurfaced ==
    /\ ~unhandled
    /\ action.pc = "idle" /\ action.outcome.kind = "rejected" =>
          detail.error = Str(action.outcome.error.message)

\* the last load finished in this step
LoadFinishes == lastLoad'.n = lastLoad.n + 1

\* C20: useEnrollmentDetail waits for both requests: enrollment and events change only
\* together, in the step in which both requests of one load have resolved, to the
\* results of that load; when a load rejects neither changes, the error message is
\* set and loading becomes false.
C20_BothOrNeither ==
    [][/\ (detail'.enrollment # detail.enrollment \/ detail'.events # detail.events) =>
             /\ LoadFinishes
             /\ lastLoad'.enroll.kind = "resolved" /\ lastLoad'.timeline.kind = "resolved"
       /\ (LoadFinishes /\ lastLoad'.enroll.kind = "resolved" /\ lastLoad'.timeline.kind = "resolved") =>
             /\ detail'.enrollment = lastLoad'.enroll.value
             /\ detail'.events = GetField(lastLoad'.timeline.value, "events").a
             /\ ~detail'.loading
       /\ (LoadFinishes /\ (lastLoad'.enroll.kind = "rejected" \/ lastLoad'.timeline.kind = "rejected")) =>
             /\ detail'.enrollment = detail.enrollment
             /\ detail'.events = detail.events
             /\ detail'.error \in {Str(m) : m \in LastLoadMessage'}
             /\ ~detail'.loading]_vars

\* a second load was rejected by its timeline request after its enrollment request
\* had resolved with a new enrollment: the state keeps the results of the first load
C20_Witness ==
    /\ lastLoad.n = 2
    /\ lastLoad.enroll.kind = "resolved" /\ lastLoad.timeline.kind = "rejected"
    /\ Truthy(detail.enrollment)
    /\ detail.enrollment # lastLoad.enroll.value
    /\ detail.error = Str("Request failed (500)")
    /\ ~detail.loading

\* C22: the precedence of the list envelopes is fixed: a bare array is returned as
\* is; an array-valued enrollments field wins over data when both are arrays; when
\* enrollments is present but is no array and data is an array, listEnrollments
\* returns data and does not fail.
C22_EnvelopePrecedence ==
    ListSettled2xx =>
        LET b == BodyValue(response.body) IN
        /\ b.t = "arr" => outcome = Resolved(b)
        /\ HasArrayField(b, "enrollments") /\ HasArrayField(b, "data")
              => outcome = Resolved(GetField(b, "enrollments"))
        /\ (b.t = "obj" /\ HasField(b, "enrollments") /\ GetField(b, "enrollments").t # "arr"
              /\ HasArrayField(b, "data"))
              => outcome = Resolved(GetField(b, "data"))

\* a list call resolved with data from a body whose enrollments field is a string
C22_Witness ==
    /\ ListSettled2xx
    /\ response.body = Stringify(Obj(<<Field("enrollments", Str("not found")), Field("data", Arr(<<E2>>))>>))
    /\ outcome = Resolved(Arr(<<E2>>))

\* this step issues the refresh of runAction
RefreshIssued == Len(loads') = Len(loads) + 1 /\ loads'[Len(loads')].awaited

\* C23: runAction issues its refresh only in the step in which the suppress/escalate
\* request resolved, never when it rejected; saving is true while the action or its
\* refresh runs and false once they have finished, on success and on failure.
C23_RefreshAfterSuccess ==
    [][/\ RefreshIssued => (action.pc = "mutating" /\ action'.outcome.kind = "resolved")
       /\ (action.pc = "mutating" /\ action'.outcome.kind = "rejected") =>
             (loads' = loads /\ action'.pc = "idle")
       /\ action'.pc # "idle" => saving'
       /\ (action.pc # "idle" /\ action'.pc = "idle") => ~saving']_vars

\* an action succeeded and its refresh has finished: saving is false again
C23_Witness ==
    /\ Len(loads) = 2 /\ loads[2].awaited /\ loads[2].decided
    /\ action.pc = "idle" /\ action.outcome.kind = "resolved"
    /\ ~saving

\* C24: at most one suppress/escalate request is in flight at any time, and while one
\* is in flight saving is true, so both buttons are disabled.
C24_OneMutation ==
    /\ mutations \in {0, 1}
    /\ mutations = 1 => saving

\* a second action is in flight after a first one failed
C24_Witness ==
    /\ mutations = 1
    /\ saving
    /\ unhandled

\* C25 as claimed: loading is true whenever a request issued by the hook is still in
\* flight. Not an invariant of the code: a load that finishes sets loading to false
\* while a request of an overlapping load, or the other request of a rejected
\* Promise.all, is still in flight.
C25_LoadingWhileInFlight ==
    (\E i \in 1..Len(loads) : loads[i].enroll.kind = "pending" \/ loads[i].timeline.kind = "pending")
        => detail.loading

\* no request of the list hook is in flight
ListQuiet == \A i \in 1..Len(listLoads) : listLoads[i].outcome.kind # "pending"

\* data and error are what the settled load l produced
ProducedBy(l) ==
    \/ l.outcome.kind = "resolved" /\ list.data = l.outcome.value /\ list.error = Null
    \/ l.outcome.kind = "rejected" /\ list.error = Str(l.outcome.error.message)

\* C21 as claimed: once no request is in flight, data and error are those produced by
\* a request issued for the currently selected status. Not an invariant of the code: a
\* late response for a status selected before overwrites them.
C21_LatestStatusWins ==
    ListQuiet => \E i \in 1..Len(listLoads) :
                    listLoads[i].status = list.status /\ ProducedBy(listLoads[i])

\* load i settles in this step
ListSettles(i) ==
    /\ i \in 1..Len(listLoads)
    /\ listLoads[i].outcome.kind = "pending"
    /\ Len(listLoads') = Len(listLoads)
    /\ listLoads'[i].outcome.kind # "pending"

\* C26: every load of useEnrollments that settles leaves loading false; on success
\* data is the returned list and error is null; on failure error is the rejection's
\* message and data keeps its value; when every request settles in the end, loading
\* becomes false in the end.
C26_LoadSettles ==
    /\ [][\A i \in 1..MaxListLoads : ListSettles(i) =>
             /\ ~list'.loading
             /\ listLoads'[i].outcome.kind = "resolved" =>
                   (list'.data = listLoads'[i].outcome.value /\ list'.error = Null)
             /\ listLoads'[i].outcome.kind = "rejected" =>
                   /\ list'.error = Str(listLoads'[i].outcome.error.message)
                   /\ list'.data = list.data]_vars
    /\ list.loading ~> ~list.loading

\* a load failed after an earlier one had succeeded: data is kept, error is set
C26_Witness ==
    /\ Len(listLoads) = 2
    /\ listLoads[1].outcome.kind = "resolved" /\ listLoads[2].outcome.kind = "rejected"
    /\ list.data = Arr(<<Enrollment("e1", "ACTIVE")>>)
    /\ list.error = Str("Request failed (500)")
    /\ ~list.loading

\* the create request settles in this step
SubmitSettles == submit.pc = "pending" /\ submit'.pc = "idle"

\* C27: in EnrollModal a successful createEnrollment clears the error, calls onDone
\* and then onClose, and resets the form to empty fields; a failed one calls neither,
\* keeps the entered form values and sets the error message; in both cases saving
\* is false afterwards.
C27_SubmitOutcome ==
    [][SubmitSettles =>
          /\ ~modal'.saving
          /\ submit'.outcome.kind = "resolved" =>
                /\ modal'.error = Null
                /\ callbacks' = callbacks \o <<"onDone", "onClose">>
                /\ modal'.form = EmptyForm
          /\ submit'.outcome.kind = "rejected" =>
                /\ callbacks' = callbacks
                /\ modal'.form = modal.form
                /\ modal'.error = Str(submit'.outcome.error.message)]_vars

\* a second submit succeeded after a first one had failed
C27_Witness ==
    /\ submit.n = 2 /\ submit.pc = "idle"
    /\ submit.outcome.kind = "resolved"
    /\ callbacks = <<"onDone", "onClose">>
    /\ modal.error = Null
    /\ modal.form = EmptyForm
    /\ ~modal.saving

====
